---------------------------- MODULE Spec2Model ----------------------------
(***************************************************************************)
(* Model of the RnnDataProcesor ETL code:                                  *)
(*   - ProcesadorDatosAtmosfericos._leer_archivo / procesar_todos          *)
(*     (src/src/procesador_datos_atmosfericos.py)                          *)
(*   - the wide-to-long conversion script (src/src/procesador_rnn.py)      *)
(*   - PipelineProcesamiento (src/src/pipeline_procesamiento.py)           *)
(* Text is modelled as sequences of one-character strings, so that strip,  *)
(* upper, startswith, endswith, splitext and the comma split are computed. *)
(***************************************************************************)
EXTENDS Integers, Sequences, FiniteSets, TLC

VARIABLES
    \* ---- _leer_archivo on one file (SpecParser)
    p_pc,          \* "inicio" | "fin"
    p_archivo,     \* the file: [legible, lineas]
    p_canton,      \* the canton argument (text)
    p_res,         \* the value returned with the log record it left
    \* ---- procesar_todos on one folder (SpecLoader)
    l_pc,          \* "inicio" | "fin"
    l_carpeta,     \* os.listdir order: sequence of [nombre, archivo]
    l_nombre,      \* nombre_archivo argument: <<>> models None / ""
    l_res,         \* outcome of the call
    l_disco,       \* set of output file names written
    \* ---- the conversion script (SpecConv)
    c_pc,          \* "inicio" | "bucle" | "fin"
    c_df,          \* the wide table read from the spreadsheet
    c_turrialba,   \* df_turrialba
    c_idx,         \* rows of df_turrialba already handled
    c_resultado,   \* the rows of `resultado`
    \* ---- ejecutar_pipeline_completo (SpecPipe)
    e_pc,          \* stage about to run, "fin" once returned or raised
    e_fs,          \* the input file system: [excel, carpeta, listado]
    e_hechas,      \* stages that ran, in order
    e_df_final,    \* the merged table (shape) once merged
    e_artefacto,   \* "ausente" | "escrito" | "parcial"  (rnn_df.csv)
    e_log,         \* error log records, in order
    e_reporte,     \* the quality report
    e_ret          \* [tipo |-> "pendiente" | "retorno" | "excepcion", ...]

p_vars == <<p_pc, p_archivo, p_canton, p_res>>
l_vars == <<l_pc, l_carpeta, l_nombre, l_res, l_disco>>
c_vars == <<c_pc, c_df, c_turrialba, c_idx, c_resultado>>
e_vars ==
    <<e_pc, e_fs, e_hechas, e_df_final, e_artefacto, e_log, e_reporte, e_ret>>
vars == <<p_vars, l_vars, c_vars, e_vars>>

---------------------------------------------------------------------------
(* Bounds of the explored inputs *)
MaxPreambulo == 1    \* preamble lines before the header of a file
MaxFilasCsv == 2     \* data lines after the header of a file
MaxArchivos == 2     \* entries of the atmospheric folder
MaxCols == 26        \* data columns of a wide yield row
MaxNulos == 2        \* null cells of a wide yield row
MaxFilas == 2        \* rows of the yield spreadsheet (multi-row tables)

---------------------------------------------------------------------------
(* Text *)

\* The characters used, in code-point order (str comparison, sort order).
Chars ==
    <<" ", ",", "-", ".", "0", "1", "2", "3", "4", "5", "6", "7", "8",
      "9", "A", "B", "C", "D", "E", "F", "G", "H", "I", "J", "K", "L",
      "M", "N", "O", "P", "Q", "R", "S", "T", "U", "V", "W", "X", "Y",
      "Z", "a", "b", "c", "d", "e", "f", "g", "h", "i", "j", "k", "l",
      "m", "n", "o", "p", "q", "r", "s", "t", "u", "v", "w", "x", "y",
      "z">>

Ord(c) == CHOOSE i \in 1..Len(Chars) : Chars[i] = c

Digits == {"0", "1", "2", "3", "4", "5", "6", "7", "8", "9"}

DigitVal(c) == Ord(c) - Ord("0")

LowerChars ==
    <<"a", "b", "c", "d", "e", "f", "g", "h", "i", "j", "k", "l", "m",
      "n", "o", "p", "q", "r", "s", "t", "u", "v", "w", "x", "y", "z">>

UpperChars ==
    <<"A", "B", "C", "D", "E", "F", "G", "H", "I", "J", "K", "L", "M",
      "N", "O", "P", "Q", "R", "S", "T", "U", "V", "W", "X", "Y", "Z">>

\* str.upper() on one character
UpperChar(c) ==
    IF \E i \in 1..Len(LowerChars) : LowerChars[i] = c
    THEN UpperChars[CHOOSE i \in 1..Len(LowerChars) : LowerChars[i] = c]
    ELSE c

\* str.upper()
Upper(s) == [i \in 1..Len(s) |-> UpperChar(s[i])]

RECURSIVE LStrip(_)
LStrip(s) == IF s # <<>> /\ Head(s) = " " THEN LStrip(Tail(s)) ELSE s

RECURSIVE RStrip(_)
RStrip(s) ==
    IF s # <<>> /\ s[Len(s)] = " " THEN RStrip(SubSeq(s, 1, Len(s) - 1)) ELSE s

\* str.strip()
Strip(s) == LStrip(RStrip(s))

\* str.startswith
StartsWith(s, pre) == Len(s) >= Len(pre) /\ SubSeq(s, 1, Len(pre)) = pre

\* str.endswith
EndsWith(s, suf) ==
    Len(s) >= Len(suf) /\ SubSeq(s, Len(s) - Len(suf) + 1, Len(s)) = suf

\* s < t for str (lexicographic by code point)
RECURSIVE StrLess(_, _)
StrLess(s, t) ==
    IF t = <<>> THEN FALSE
    ELSE IF s = <<>> THEN TRUE
    ELSE IF Head(s) = Head(t) THEN StrLess(Tail(s), Tail(t))
    ELSE Ord(Head(s)) < Ord(Head(t))

\* sep.join(parts)
RECURSIVE Join(_, _)
Join(parts, sep) ==
    IF parts = <<>> THEN <<>>
    ELSE IF Len(parts) = 1 THEN parts[1]
    ELSE parts[1] \o sep \o Join(Tail(parts), sep)

\* the fields of one delimited line (no quoting in the explored inputs)
RECURSIVE SplitComma(_, _)
SplitComma(s, campo) ==
    IF s = <<>> THEN <<campo>>
    ELSE IF Head(s) = "," THEN <<campo>> \o SplitComma(Tail(s), <<>>)
    ELSE SplitComma(Tail(s), Append(campo, Head(s)))

---------------------------------------------------------------------------
(* ProcesadorDatosAtmosfericos._leer_archivo *)

T_PARAMETER == <<"P", "A", "R", "A", "M", "E", "T", "E", "R">>
T_YEAR == <<"Y", "E", "A", "R">>
T_JAN == <<"J", "A", "N">>
T_FEB == <<"F", "E", "B">>
T_MAR == <<"M", "A", "R">>
T_APR == <<"A", "P", "R">>
T_MAY == <<"M", "A", "Y">>
T_JUN == <<"J", "U", "N">>
T_JUL == <<"J", "U", "L">>
T_AUG == <<"A", "U", "G">>
T_SEP == <<"S", "E", "P">>
T_OCT == <<"O", "C", "T">>
T_NOV == <<"N", "O", "V">>
T_DEC == <<"D", "E", "C">>
T_COMA == <<",">>
T_CSV == <<".", "c", "s", "v">>

\* the literal of line 57
MARCADOR == T_PARAMETER \o T_COMA \o T_YEAR

MESES_ATM ==
    <<T_JAN, T_FEB, T_MAR, T_APR, T_MAY, T_JUN,
      T_JUL, T_AUG, T_SEP, T_OCT, T_NOV, T_DEC>>

\* columnas_necesarias, lines 73-74
columnas_necesarias == <<T_PARAMETER, T_YEAR>> \o MESES_ATM

SeqToSet(s) == {s[i] : i \in 1..Len(s)}

\* [x for x in s if Test(x)]
RECURSIVE SelectSeqIn(_, _)
SelectSeqIn(s, S) ==
    IF s = <<>> THEN <<>>
    ELSE IF Head(s) \in S THEN <<Head(s)>> \o SelectSeqIn(Tail(s), S)
    ELSE SelectSeqIn(Tail(s), S)

\* lines 55-59: 1-based position of the first line whose stripped text starts
\* with the marker, 0 for None
RECURSIVE BuscarInicio(_, _)
BuscarInicio(lineas, i) ==
    IF i > Len(lineas) THEN 0
    ELSE IF StartsWith(Strip(lineas[i]), MARCADOR) THEN i
    ELSE BuscarInicio(lineas, i + 1)

\* variant: the scan does not stop at the first match
indice_ultimo(lineas) ==
    LET S == {i \in 1..Len(lineas) : StartsWith(Strip(lineas[i]), MARCADOR)}
    IN  IF S = {} THEN 0 ELSE CHOOSE i \in S : \A j \in S : j <= i

indice_inicio(lineas) == BuscarInicio(lineas, 1)

\* one data line as Len(columnas) cells, short lines padded with empty cells
Celdas(linea, n) ==
    LET campos == SplitComma(linea, <<>>)
    IN  [j \in 1..n |-> IF j <= Len(campos) THEN campos[j] ELSE <<>>]

\* line 66, pd.read_csv(ruta, skiprows=k): the first k lines are dropped, blank
\* lines are skipped, the first line left is the header and the others are the
\* rows.  (No explored input has a row longer than its header.)
read_csv(lineas, skiprows) ==
    LET resto == SubSeq(lineas, skiprows + 1, Len(lineas))
        noVacias == SelectSeq(resto, LAMBDA l : l # <<>>)
        columnas == SplitComma(noVacias[1], <<>>)
    IN  [columns |-> columnas,
         filas |-> [i \in 1..(Len(noVacias) - 1) |->
                        Celdas(noVacias[i + 1], Len(columnas))]]

\* df.empty
Empty(df) == Len(df.filas) = 0 \/ Len(df.columns) = 0

\* line 76
columnas_faltantes(df) ==
    SelectSeqIn(columnas_necesarias,
                SeqToSet(columnas_necesarias) \ SeqToSet(df.columns))

\* df[col] of one row
Celda(df, fila, col) ==
    fila[CHOOSE j \in 1..Len(df.columns) : df.columns[j] = col]

\* lines 82-85, df.melt: month by month, and within a month row by row
melt(df) ==
    LET n == Len(df.filas)
    IN  [k \in 1..(Len(MESES_ATM) * n) |->
            LET m == ((k - 1) \div n) + 1
                i == ((k - 1) % n) + 1
            IN  [PARAMETER |-> Celda(df, df.filas[i], T_PARAMETER),
                 YEAR |-> Celda(df, df.filas[i], T_YEAR),
                 mes |-> MESES_ATM[m],
                 valor |-> Celda(df, df.filas[i], MESES_ATM[m])]]

RECURSIVE Decimal(_, _)
Decimal(s, acc) ==
    IF s = <<>> THEN acc ELSE Decimal(Tail(s), 10 * acc + DigitVal(Head(s)))

\* line 88, pd.to_numeric(errors='coerce') on one cell: the number, or NaN for
\* an empty or unparseable cell.  (The explored cells are unsigned integers or
\* words.)
to_numeric(celda) ==
    IF celda # <<>> /\ \A i \in 1..Len(celda) : celda[i] \in Digits
    THEN [nan |-> FALSE, v |-> Decimal(celda, 0)]
    ELSE [nan |-> TRUE, v |-> 0]

RECURSIVE SumSeq(_)
SumSeq(s) == IF s = <<>> THEN 0 ELSE Head(s) + SumSeq(Tail(s))

NaN == [nan |-> TRUE, suma |-> 0, n |-> 0]

\* aggfunc='mean' over the non-NaN values of one group, kept as suma / n
mean(valores) ==
    LET nums == SelectSeq(valores, LAMBDA x : ~x.nan)
    IN  IF nums = <<>> THEN NaN
        ELSE [nan |-> FALSE,
              suma |-> SumSeq([i \in 1..Len(nums) |-> nums[i].v]),
              n |-> Len(nums)]

\* ascending order of a set of texts
RECURSIVE SortStr(_)
SortStr(S) ==
    IF S = {} THEN <<>>
    ELSE LET min == CHOOSE x \in S : \A y \in S \ {x} : StrLess(x, y)
         IN  <<min>> \o SortStr(S \ {min})

\* line 97, canton.strip().upper(): the region key of the atmospheric table
clave_canton(canton) == Upper(Strip(canton))

\* lines 91-98, pivot_table(index=[YEAR, mes], columns=PARAMETER, aggfunc=mean)
\* .reset_index(), the canton column and the rename: groups with a NaN key are
\* left out, groups whose mean is NaN are dropped, the rows come sorted by
\* (YEAR, mes) and the parameter columns sorted by name.
pivot_table(largo, canton) ==
    LET num == [k \in 1..Len(largo) |-> to_numeric(largo[k].valor)]
        Grupo(y, m, p) ==
            mean([j \in 1..Len(largo) |->
                    IF largo[j].YEAR = y /\ largo[j].mes = m /\ largo[j].PARAMETER = p
                    THEN num[j] ELSE [nan |-> TRUE, v |-> 0]])
        idx == {k \in 1..Len(largo) :
                   /\ largo[k].PARAMETER # <<>>
                   /\ largo[k].YEAR # <<>>
                   /\ ~Grupo(largo[k].YEAR, largo[k].mes, largo[k].PARAMETER).nan}
        params == SortStr({largo[k].PARAMETER : k \in idx})
        anios == SortStr({largo[k].YEAR : k \in idx})
        meses == SortStr({largo[k].mes : k \in idx})
        claves == {<<largo[k].YEAR, largo[k].mes>> : k \in idx}
        orden == [k \in 1..(Len(anios) * Len(meses)) |->
                    <<anios[((k - 1) \div Len(meses)) + 1],
                      meses[((k - 1) % Len(meses)) + 1]>>]
        filasOrd == SelectSeqIn(orden, claves)
    IN  [columns |-> params,
         filas |-> [r \in 1..Len(filasOrd) |->
                       [anio |-> filasOrd[r][1],
                        mes |-> filasOrd[r][2],
                        canton |-> clave_canton(canton),
                        vars |-> [c \in 1..Len(params) |->
                                    Grupo(filasOrd[r][1], filasOrd[r][2], params[c])]]]]

TablaVacia == [columns |-> <<>>, filas |-> <<>>]

\* _leer_archivo(ruta, canton), lines 49-104.  The value returned is `df` when
\* `tag` is "ok" and None otherwise; `tag` names the log record the call left,
\* `inicio` is indice_inicio (0 when the scan was not reached or found nothing),
\* `crudo` is the frame read_csv gave and `faltantes` is columnas_faltantes.
leer_archivo(archivo, canton) ==
    IF ~archivo.legible
    THEN [tag |-> "excepcion", inicio |-> 0, crudo |-> TablaVacia,
          faltantes |-> <<>>, df |-> TablaVacia]
    ELSE
    LET ini == indice_inicio(archivo.lineas)
    IN  IF ini = 0
        THEN [tag |-> "sin_encabezado", inicio |-> 0, crudo |-> TablaVacia,
              faltantes |-> <<>>, df |-> TablaVacia]
        ELSE
        LET df == read_csv(archivo.lineas, ini - 1)
        IN  IF Empty(df)
            THEN [tag |-> "vacio", inicio |-> ini, crudo |-> df,
                  faltantes |-> <<>>, df |-> TablaVacia]
            ELSE IF columnas_faltantes(df) # <<>>
            THEN [tag |-> "columnas_faltantes", inicio |-> ini, crudo |-> df,
                  faltantes |-> columnas_faltantes(df), df |-> TablaVacia]
            ELSE [tag |-> "ok", inicio |-> ini, crudo |-> df,
                  faltantes |-> <<>>, df |-> pivot_table(melt(df), canton)]

---------------------------------------------------------------------------
(* ProcesadorDatosAtmosfericos.procesar_todos *)

\* os.path.splitext(nombre)[0]: the text before the last dot, leading dots not
\* counting as the start of an extension
splitext_base(nombre) ==
    LET puntos == {i \in 1..Len(nombre) : nombre[i] = "."}
        dot == IF puntos = {} THEN 0
               ELSE CHOOSE i \in puntos : \A j \in puntos : j <= i
    IN  IF dot > 0 /\ \E k \in 1..(dot - 1) : nombre[k] # "."
        THEN SubSeq(nombre, 1, dot - 1)
        ELSE nombre

\* variant: no filter on the extension
archivos_todos(carpeta) == [i \in 1..Len(carpeta) |-> carpeta[i].nombre]

\* line 120: the names of os.listdir that end in ".csv", in listing order
archivos_csv(carpeta) ==
    SelectSeq([i \in 1..Len(carpeta) |-> carpeta[i].nombre],
              LAMBDA f : EndsWith(f, T_CSV))

\* the file behind a name of the folder
Abrir(carpeta, nombre) ==
    carpeta[CHOOSE i \in 1..Len(carpeta) : carpeta[i].nombre = nombre].archivo

\* pd.concat(df_final, ignore_index=True): the rows one table after the other,
\* over the union of the columns in order of first appearance, NaN where a
\* table lacks a column
RECURSIVE UnionCols(_, _)
UnionCols(tablas, acc) ==
    IF tablas = <<>> THEN acc
    ELSE UnionCols(Tail(tablas),
                   acc \o SelectSeqIn(Head(tablas).columns,
                                      SeqToSet(Head(tablas).columns) \ SeqToSet(acc)))

Reindexar(tabla, cols) ==
    [r \in 1..Len(tabla.filas) |->
        [tabla.filas[r] EXCEPT
            !.vars = [c \in 1..Len(cols) |->
                        IF cols[c] \in SeqToSet(tabla.columns)
                        THEN tabla.filas[r].vars[
                                 CHOOSE j \in 1..Len(tabla.columns) :
                                     tabla.columns[j] = cols[c]]
                        ELSE NaN]]]

RECURSIVE ConcatFilas(_, _)
ConcatFilas(tablas, cols) ==
    IF tablas = <<>> THEN <<>>
    ELSE Reindexar(Head(tablas), cols) \o ConcatFilas(Tail(tablas), cols)

concat(tablas) ==
    LET cols == UnionCols(tablas, <<>>)
    IN  [columns |-> cols, filas |-> ConcatFilas(tablas, cols)]

\* variant: the loop ends at the first file that gives None
RECURSIVE BucleAborta(_, _, _)
BucleAborta(carpeta, archivos, acc) ==
    IF archivos = <<>> THEN acc
    ELSE LET archivo == Head(archivos)
             df_canton == leer_archivo(Abrir(carpeta, archivo), splitext_base(archivo))
             intento == [archivo |-> archivo, tag |-> df_canton.tag]
         IN  IF df_canton.tag # "ok"
             THEN [df_final |-> acc.df_final, intentos |-> Append(acc.intentos, intento)]
             ELSE BucleAborta(carpeta, Tail(archivos),
                              [df_final |-> Append(acc.df_final, df_canton.df),
                               intentos |-> Append(acc.intentos, intento)])

\* lines 130-137: the loop over `archivos`; every name is read, the tables that
\* are not None are appended to df_final in that order
RECURSIVE Bucle(_, _, _)
Bucle(carpeta, archivos, acc) ==
    IF archivos = <<>> THEN acc
    ELSE LET archivo == Head(archivos)
             canton == splitext_base(archivo)
             df_canton == leer_archivo(Abrir(carpeta, archivo), canton)
             intento == [archivo |-> archivo, tag |-> df_canton.tag]
         IN  Bucle(carpeta, Tail(archivos),
                   [df_final |-> IF df_canton.tag = "ok"
                                 THEN Append(acc.df_final, df_canton.df)
                                 ELSE acc.df_final,
                    intentos |-> Append(acc.intentos, intento)])

\* variant: the check of line 139 is missing
procesar_todos_sin_control(carpeta, nombre_archivo) ==
    LET archivos == archivos_csv(carpeta)
    IN  IF archivos = <<>>
        THEN [exc |-> "sin_archivos_csv", df |-> TablaVacia, intentos |-> <<>>,
              escrito |-> <<>>, log |-> <<"error_al_procesar">>]
        ELSE
        LET b == Bucle(carpeta, archivos, [df_final |-> <<>>, intentos |-> <<>>])
        IN  [exc |-> "ninguna", df |-> concat(b.df_final), intentos |-> b.intentos,
             escrito |-> nombre_archivo, log |-> <<>>]

\* procesar_todos(nombre_archivo), lines 119-162.  exc is the exception raised
\* ("ninguna" when the call returns df); intentos are the files handed to
\* _leer_archivo; escrito is the output file written, <<>> for none; log holds
\* the error records of line 161.
procesar_todos(carpeta, nombre_archivo) ==
    LET archivos == archivos_csv(carpeta)
    IN  IF archivos = <<>>
        THEN [exc |-> "sin_archivos_csv", df |-> TablaVacia, intentos |-> <<>>,
              escrito |-> <<>>, log |-> <<"error_al_procesar">>]
        ELSE
        LET b == Bucle(carpeta, archivos, [df_final |-> <<>>, intentos |-> <<>>])
        IN  IF b.df_final = <<>>
            THEN [exc |-> "sin_datos_validos", df |-> TablaVacia,
                  intentos |-> b.intentos, escrito |-> <<>>,
                  log |-> <<"error_al_procesar">>]
            ELSE [exc |-> "ninguna", df |-> concat(b.df_final),
                  intentos |-> b.intentos,
                  escrito |-> nombre_archivo, log |-> <<>>]

---------------------------------------------------------------------------
(* Explored inputs of the atmospheric side *)

T_T2M == <<"T", "2", "M">>
T_PS == <<"P", "S">>
T_2020 == <<"2", "0", "2", "0">>
T_2021 == <<"2", "0", "2", "1">>

\* header lines: well formed; indented (the stripped line starts with the
\* marker, the first column is "  PARAMETER"); second column YEARLY; DEC
\* missing; all columns present but YEAR first (not the marker)
H_FULL == Join(columnas_necesarias, T_COMA)
H_INDENT == <<" ", " ">> \o H_FULL
H_YEARLY == Join(<<T_PARAMETER, T_YEAR \o <<"L", "Y">>>> \o MESES_ATM, T_COMA)
H_NODEC == Join(SubSeq(columnas_necesarias, 1, 13), T_COMA)
H_OTRO == Join(<<T_YEAR, T_PARAMETER>> \o MESES_ATM, T_COMA)

\* preamble lines: text, a blank line, text holding the marker after a dash
L_TEXTO == <<"-", "B", "E", "G", "I", "N", " ", "H", "E", "A", "D", "E", "R", "-">>
L_BLANCO == <<>>
L_CONTIENE == <<"-">> \o MARCADOR

\* data lines: two for the same (PARAMETER, YEAR), one short with a word
D_T2M_A == Join(<<T_T2M, T_2020>> \o [i \in 1..12 |-> <<"1">>], T_COMA)
D_T2M_B == Join(<<T_T2M, T_2020>> \o [i \in 1..12 |-> <<"3">>], T_COMA)
D_PS == Join(<<T_PS, T_2021, <<"x">>, <<"5">>, <<>>, <<"7">>>>, T_COMA)

LineasPreambulo == {L_TEXTO, L_BLANCO, L_CONTIENE}
LineasEncabezado == {H_FULL, H_INDENT, H_YEARLY, H_NODEC, H_OTRO}
LineasDatos == {D_T2M_A, D_T2M_B, D_PS, H_FULL}

SeqsUpTo(S, n) == UNION {[1..k -> S] : k \in 0..n}

\* files: preamble, at most one header line, data lines; and one that cannot
\* be opened or decoded
Archivos ==
    {[legible |-> TRUE, lineas |-> pre \o enc \o dat] :
        pre \in SeqsUpTo(LineasPreambulo, MaxPreambulo),
        enc \in SeqsUpTo(LineasEncabezado, 1),
        dat \in SeqsUpTo(LineasDatos, MaxFilasCsv)}
    \cup {[legible |-> FALSE, lineas |-> <<>>]}

N_TURRIALBA == <<"T", "u", "r", "r", "i", "a", "l", "b", "a">> \o T_CSV
N_ESPACIOS == <<" ", "t", "u", "r", "r", "i", "a", "l", "b", "a", " ">> \o T_CSV
N_TXT == <<"n", "o", "t", "a", "s", ".", "t", "x", "t">>
N_MAYUS == <<"C", "A", "R", "T", "A", "G", "O", ".", "C", "S", "V">>
N_SALIDA == <<"c", "l", "i", "m", "a">> \o T_CSV

Cantones == {splitext_base(N_TURRIALBA), splitext_base(N_ESPACIOS)}

Nombres == {N_TURRIALBA, N_ESPACIOS, N_TXT, N_MAYUS}

\* the files a folder entry may hold: two that parse, and one per way of failing
ArchivosCarpeta ==
    {[legible |-> TRUE, lineas |-> <<L_TEXTO, H_FULL, D_T2M_A>>],
     [legible |-> TRUE, lineas |-> <<H_FULL, D_PS, D_T2M_B>>],
     [legible |-> TRUE, lineas |-> <<L_TEXTO, D_T2M_A>>],
     [legible |-> TRUE, lineas |-> <<H_NODEC, D_T2M_A>>],
     [legible |-> TRUE, lineas |-> <<L_TEXTO, H_FULL>>],
     [legible |-> FALSE, lineas |-> <<>>]}

\* the folders of the pipeline runs: files that parse or lack the header
CarpetasPipeline ==
    {c \in SeqsUpTo([nombre : {N_TURRIALBA, N_ESPACIOS, N_TXT},
                     archivo : {[legible |-> TRUE, lineas |-> <<L_TEXTO, H_FULL, D_PS>>],
                                [legible |-> TRUE, lineas |-> <<L_TEXTO, D_PS>>]}],
                    MaxArchivos) :
        \A i, j \in 1..Len(c) : i # j => c[i].nombre # c[j].nombre}

\* folder listings: distinct names, in any order
Carpetas ==
    {c \in SeqsUpTo([nombre : Nombres, archivo : ArchivosCarpeta], MaxArchivos) :
        \A i, j \in 1..Len(c) : i # j => c[i].nombre # c[j].nombre}

---------------------------------------------------------------------------
(* Specifications of the atmospheric side *)

Pendiente ==
    [tag |-> "pendiente", inicio |-> 0, crudo |-> TablaVacia, faltantes |-> <<>>,
     df |-> TablaVacia]

SinLlamada ==
    [exc |-> "pendiente", df |-> TablaVacia, intentos |-> <<>>, escrito |-> <<>>,
     log |-> <<>>]

ReposoP ==
    /\ p_pc = "reposo"
    /\ p_archivo = [legible |-> FALSE, lineas |-> <<>>]
    /\ p_canton = <<>>
    /\ p_res = Pendiente

ReposoL ==
    /\ l_pc = "reposo"
    /\ l_carpeta = <<>>
    /\ l_nombre = <<>>
    /\ l_res = SinLlamada
    /\ l_disco = {}

InitP ==
    /\ p_pc = "inicio"
    /\ p_archivo \in Archivos
    /\ p_canton \in Cantones
    /\ p_res = Pendiente

\* one call of _leer_archivo
LeerArchivo ==
    /\ p_pc = "inicio"
    /\ p_res' = leer_archivo(p_archivo, p_canton)
    /\ p_pc' = "fin"
    /\ UNCHANGED <<p_archivo, p_canton, l_vars, c_vars, e_vars>>

InitL ==
    /\ l_pc = "inicio"
    /\ l_carpeta \in Carpetas
    /\ l_nombre \in {<<>>, N_SALIDA}
    /\ l_res = SinLlamada
    /\ l_disco = {}

\* one call of procesar_todos
ProcesarTodos ==
    /\ l_pc = "inicio"
    /\ l_res' = procesar_todos(l_carpeta, l_nombre)
    /\ l_disco' = IF l_res'.escrito # <<>> THEN l_disco \cup {l_res'.escrito}
                  ELSE l_disco
    /\ l_pc' = "fin"
    /\ UNCHANGED <<l_carpeta, l_nombre, p_vars, c_vars, e_vars>>

---------------------------------------------------------------------------
(* The wide-to-long conversion script, procesador_rnn.py *)

\* the literal of lines 9 and 24
T_Turrialba == <<"T", "u", "r", "r", "i", "a", "l", "b", "a">>

\* lines 15-16
meses ==
    <<"enero", "febrero", "marzo", "abril", "mayo", "junio",
      "julio", "agosto", "septiembre", "octubre", "noviembre", "diciembre">>

\* A cell of the spreadsheet is <<>> (null) or <<v>>.
\* variant: null cells keep their place (as 0) instead of being dropped
dropna_posicional(celdas) ==
    [k \in 1..Len(celdas) |-> IF celdas[k] = <<>> THEN 0 ELSE celdas[k][1]]

\* line 21, fila.iloc[1:].dropna().tolist()
dropna(celdas) ==
    LET llenas == SelectSeq(celdas, LAMBDA c : c # <<>>)
    IN  [k \in 1..Len(llenas) |-> llenas[k][1]]

\* line 9, df[df[primera_columna] == 'Turrialba']
filtrar(df) == SelectSeq(df, LAMBDA f : f.region = T_Turrialba)

\* variant: a month is filled only when both of its values are there
asignar_pares(valores) ==
    LET ambos == {i \in 0..(Len(meses) - 1) : i * 2 + 1 < Len(valores)}
        claves == {<<meses[i + 1], "produccion">> : i \in ambos}
                  \cup {<<meses[i + 1], "area">> : i \in ambos}
        Pos(m) == (CHOOSE i \in 0..(Len(meses) - 1) : meses[i + 1] = m)
    IN  [k \in claves |->
            IF k[2] = "produccion" THEN valores[Pos(k[1]) * 2 + 1]
            ELSE valores[Pos(k[1]) * 2 + 2]]

\* lines 27-31: the month-metric columns given a value, 0-based i as in the code
asignar(valores) ==
    LET prod == {i \in 0..(Len(meses) - 1) : i * 2 < Len(valores)}
        area == {i \in 0..(Len(meses) - 1) : i * 2 + 1 < Len(valores)}
        claves == {<<meses[i + 1], "produccion">> : i \in prod}
                  \cup {<<meses[i + 1], "area">> : i \in area}
        Pos(m) == (CHOOSE i \in 0..(Len(meses) - 1) : meses[i + 1] = m)
    IN  [k \in claves |->
            IF k[2] = "produccion" THEN valores[Pos(k[1]) * 2 + 1]
            ELSE valores[Pos(k[1]) * 2 + 2]]

\* lines 21-31: fila_resultado of one row of df_turrialba
fila_resultado(fila) ==
    [region |-> T_Turrialba, datos |-> asignar(dropna(fila.celdas))]

ReposoC ==
    /\ c_pc = "reposo"
    /\ c_df = <<>>
    /\ c_turrialba = <<>>
    /\ c_idx = 0
    /\ c_resultado = <<>>

\* null positions: every set of at most MaxNulos columns
Nulos(n) == UNION {{{f[i] : i \in 1..k} : f \in [1..k -> 1..n]} : k \in 0..MaxNulos}

\* a Turrialba row of n data columns; the cell of column j holds j
FilasAnchas ==
    UNION {{[region |-> T_Turrialba,
             celdas |-> [j \in 1..n |-> IF j \in N THEN <<>> ELSE <<j>>]] :
               N \in Nulos(n)} : n \in 0..MaxCols}

RegionesEntrada ==
    {T_Turrialba,
     <<" ">> \o T_Turrialba \o <<" ">>,
     Upper(T_Turrialba),
     <<"t">> \o Tail(T_Turrialba),
     <<"C", "a", "r", "t", "a", "g", "o">>}

FilasCortas ==
    [region : RegionesEntrada,
     celdas : {<<<<1>>, <<2>>, <<3>>>>, <<<<1>>, <<>>, <<3>>, <<4>>>>}]

\* the spreadsheet: one wide Turrialba row, or several short rows of any region
InitC ==
    /\ c_pc = "inicio"
    /\ c_df \in {<<f>> : f \in FilasAnchas}
                \cup UNION {[1..k -> FilasCortas] : k \in 1..MaxFilas}
    /\ c_turrialba = <<>>
    /\ c_idx = 0
    /\ c_resultado = <<>>

\* lines 4-12: read, filter, empty result
Filtrar ==
    /\ c_pc = "inicio"
    /\ c_turrialba' = filtrar(c_df)
    /\ c_resultado' = <<>>
    /\ c_idx' = 0
    /\ c_pc' = "bucle"
    /\ UNCHANGED <<c_df, p_vars, l_vars, e_vars>>

\* lines 19-34: one pass of the loop over df_turrialba
ProcesarFila ==
    /\ c_pc = "bucle"
    /\ c_idx < Len(c_turrialba)
    /\ c_resultado' = Append(c_resultado, fila_resultado(c_turrialba[c_idx + 1]))
    /\ c_idx' = c_idx + 1
    /\ UNCHANGED <<c_pc, c_df, c_turrialba, p_vars, l_vars, e_vars>>

\* lines 36-46: the loop is over, the result is printed and saved
Guardar ==
    /\ c_pc = "bucle"
    /\ c_idx = Len(c_turrialba)
    /\ c_pc' = "fin"
    /\ UNCHANGED <<c_df, c_turrialba, c_idx, c_resultado, p_vars, l_vars, e_vars>>

---------------------------------------------------------------------------
(* PipelineProcesamiento, pipeline_procesamiento.py *)

\* _validar_archivos_entrada, lines 71-85: the exception raised, or "ninguna"
validar_archivos_entrada(fs) ==
    IF ~fs.excel THEN "FileNotFoundError_excel"
    ELSE IF fs.carpeta = "ausente" THEN "FileNotFoundError_carpeta"
    ELSE IF fs.carpeta # "carpeta" THEN "NotADirectoryError"
    ELSE IF archivos_csv(fs.listado) = <<>> THEN "FileNotFoundError_csv"
    ELSE "ninguna"

\* procesar_datos_atmosfericos, lines 114-129: the constructor's checks
\* (procesador_datos_atmosfericos.py lines 28-32), then procesar_todos()
\* without nombre_archivo; an exception is logged and raised again
procesar_datos_atmosfericos(fs) ==
    IF fs.carpeta # "carpeta"
    THEN [exc |-> "NotADirectoryError", df |-> TablaVacia,
          log |-> <<"error_datos_atmosfericos">>]
    ELSE LET r == procesar_todos(fs.listado, <<>>)
         IN  [exc |-> r.exc, df |-> r.df,
              log |-> IF r.exc = "ninguna" THEN <<>>
                      ELSE r.log \o <<"error_datos_atmosfericos">>]

ReporteVacio ==
    [vacio |-> TRUE, total_filas |-> 0, total_columnas |-> 0,
     valores_faltantes |-> 0, completitud |-> <<0, 0>>]

\* variant: the exception of the report is raised again
generar_reporte_calidad_propaga(df_final, falla) ==
    IF falla
    THEN [exc |-> "error_reporte", log |-> <<"error_reporte_calidad">>,
          reporte |-> ReporteVacio]
    ELSE [exc |-> "ninguna", log |-> <<>>,
          reporte |-> [vacio |-> FALSE,
                       total_filas |-> df_final.filas,
                       total_columnas |-> df_final.columnas,
                       valores_faltantes |-> df_final.faltantes,
                       completitud |->
                           <<100 * (df_final.filas * df_final.columnas
                                    - df_final.faltantes),
                             df_final.filas * df_final.columnas>>]]

\* generar_reporte_calidad, lines 181-198.  A table is known by its shape
\* [filas, columnas, faltantes]; falla says the try body raised.  The
\* completeness (1 - faltantes / (filas * columnas)) * 100 is kept as the
\* fraction <<100 * (filas * columnas - faltantes), filas * columnas>>.
generar_reporte_calidad(df_final, falla) ==
    IF falla
    THEN [exc |-> "ninguna", log |-> <<"error_reporte_calidad">>,
          reporte |-> ReporteVacio]
    ELSE [exc |-> "ninguna", log |-> <<>>,
          reporte |-> [vacio |-> FALSE,
                       total_filas |-> df_final.filas,
                       total_columnas |-> df_final.columnas,
                       valores_faltantes |-> df_final.faltantes,
                       completitud |->
                           <<100 * (df_final.filas * df_final.columnas
                                    - df_final.faltantes),
                             df_final.filas * df_final.columnas>>]]

ETAPAS == <<"validar", "papa", "clima", "fusion", "guardar", "reporte">>

Siguiente(etapa) ==
    LET i == CHOOSE k \in 1..Len(ETAPAS) : ETAPAS[k] = etapa
    IN  IF i = Len(ETAPAS) THEN "fin" ELSE ETAPAS[i + 1]

\* variant: the exception is logged and the run goes on
propagar_traga(etapa, exc) ==
    [pc |-> Siguiente(etapa),
     log |-> IF exc = "ninguna" THEN <<>> ELSE <<"error_pipeline_completo">>,
     ret |-> [tipo |-> "pendiente", etapa |-> "", exc |-> "ninguna", ruta |-> ""]]

\* the try/except of ejecutar_pipeline_completo, lines 210-244: where control
\* goes after a stage that raised `exc` ("ninguna": it returned), with the log
\* record and the outcome of the call
propagar(etapa, exc) ==
    IF exc = "ninguna"
    THEN [pc |-> Siguiente(etapa), log |-> <<>>,
          ret |-> [tipo |-> "pendiente", etapa |-> "", exc |-> "ninguna", ruta |-> ""]]
    ELSE [pc |-> "fin", log |-> <<"error_pipeline_completo">>,
          ret |-> [tipo |-> "excepcion", etapa |-> etapa, exc |-> exc, ruta |-> ""]]

\* shapes of the merged table: empty, complete, with missing values
Formas ==
    {[filas |-> 0, columnas |-> 0, faltantes |-> 0],
     [filas |-> 2, columnas |-> 3, faltantes |-> 0],
     [filas |-> 2, columnas |-> 3, faltantes |-> 1]}

SinForma == [filas |-> 0, columnas |-> 0, faltantes |-> 0]

RetPendiente == [tipo |-> "pendiente", etapa |-> "", exc |-> "ninguna", ruta |-> ""]

ReposoE ==
    /\ e_pc = "reposo"
    /\ e_fs = [excel |-> FALSE, carpeta |-> "ausente", listado |-> <<>>]
    /\ e_hechas = <<>>
    /\ e_df_final = SinForma
    /\ e_artefacto = "ausente"
    /\ e_log = <<>>
    /\ e_reporte = ReporteVacio
    /\ e_ret = RetPendiente

InitE ==
    /\ e_pc = "validar"
    /\ \E excel \in BOOLEAN, carpeta \in {"carpeta", "ausente", "archivo"},
          listado \in CarpetasPipeline :
          /\ carpeta # "carpeta" => listado = <<>>
          /\ e_fs = [excel |-> excel, carpeta |-> carpeta, listado |-> listado]
    /\ e_hechas = <<>>
    /\ e_df_final = SinForma
    /\ e_artefacto = "ausente"
    /\ e_log = <<>>
    /\ e_reporte = ReporteVacio
    /\ e_ret = RetPendiente

\* a stage ran and returned or raised `exc`, leaving `log`
Etapa(etapa, exc, log) ==
    LET p == propagar(etapa, exc)
    IN  /\ e_pc = etapa
        /\ e_hechas' = Append(e_hechas, etapa)
        /\ e_log' = e_log \o log \o p.log
        /\ e_pc' = p.pc
        /\ e_ret' = p.ret

\* line 215
Validar ==
    /\ Etapa("validar", validar_archivos_entrada(e_fs), <<>>)
    /\ UNCHANGED <<e_fs, e_df_final, e_artefacto, e_reporte, p_vars, l_vars, c_vars>>

\* line 218, procesar_datos_papa (lines 94-105): ProcesadorDatosPapa returns a
\* table or raises
ProcesarPapa ==
    /\ \E ok \in BOOLEAN :
          Etapa("papa", IF ok THEN "ninguna" ELSE "error_papa",
                IF ok THEN <<>> ELSE <<"error_datos_papa">>)
    /\ UNCHANGED <<e_fs, e_df_final, e_artefacto, e_reporte, p_vars, l_vars, c_vars>>

\* line 221
ProcesarClima ==
    /\ \E r \in {procesar_datos_atmosfericos(e_fs)} : Etapa("clima", r.exc, r.log)
    /\ UNCHANGED <<e_fs, e_df_final, e_artefacto, e_reporte, p_vars, l_vars, c_vars>>

\* line 224, fusionar_datos (lines 142-169): MergeDatosPapaAtmosfericos returns
\* a table or raises
Fusionar ==
    /\ \E ok \in BOOLEAN :
          /\ Etapa("fusion", IF ok THEN "ninguna" ELSE "error_fusion",
                   IF ok THEN <<>> ELSE <<"error_fusionando">>)
          /\ IF ok THEN e_df_final' \in Formas ELSE e_df_final' = e_df_final
    /\ UNCHANGED <<e_fs, e_artefacto, e_reporte, p_vars, l_vars, c_vars>>

\* lines 227-228: rnn_df.csv is written; a failed write may leave a partial file
GuardarFinal ==
    /\ \E ok \in BOOLEAN :
          /\ Etapa("guardar", IF ok THEN "ninguna" ELSE "OSError", <<>>)
          /\ IF ok THEN e_artefacto' = "escrito"
             ELSE e_artefacto' \in {"ausente", "parcial"}
    /\ UNCHANGED <<e_fs, e_df_final, e_reporte, p_vars, l_vars, c_vars>>

\* lines 231-240: the report, then the return of (ruta_final, reporte)
Reporte ==
    /\ \E falla \in BOOLEAN :
          LET r == generar_reporte_calidad(e_df_final, falla)
              p == propagar("reporte", r.exc)
          IN  /\ e_pc = "reporte"
              /\ e_hechas' = Append(e_hechas, "reporte")
              /\ e_log' = e_log \o r.log \o p.log
              /\ e_pc' = p.pc
              /\ e_reporte' = r.reporte
              /\ e_ret' = IF r.exc = "ninguna"
                          THEN [tipo |-> "retorno", etapa |-> "reporte",
                                exc |-> "ninguna", ruta |-> "rnn_df.csv"]
                          ELSE p.ret
    /\ UNCHANGED <<e_fs, e_df_final, e_artefacto, p_vars, l_vars, c_vars>>

---------------------------------------------------------------------------
(* Specifications *)

\* _leer_archivo on every explored file
InitParser == InitP /\ ReposoL /\ ReposoC /\ ReposoE

NextP == LeerArchivo

SpecParser == InitParser /\ [][NextP]_vars

\* procesar_todos on every explored folder
InitLoader == ReposoP /\ InitL /\ ReposoC /\ ReposoE

NextL == ProcesarTodos

SpecLoader == InitLoader /\ [][NextL]_vars

\* the conversion script on every explored spreadsheet
InitConv == ReposoP /\ ReposoL /\ InitC /\ ReposoE

NextC == Filtrar \/ ProcesarFila \/ Guardar

SpecConv == InitConv /\ [][NextC]_vars

\* ejecutar_pipeline_completo on every explored input
InitPipe == ReposoP /\ ReposoL /\ ReposoC /\ InitE

NextE ==
    \/ Validar
    \/ ProcesarPapa
    \/ ProcesarClima
    \/ Fusionar
    \/ GuardarFinal
    \/ Reporte

SpecPipe == InitPipe /\ [][NextE]_vars

---------------------------------------------------------------------------
(* Properties of _leer_archivo (SpecParser) *)

\* the lines of the file read whose stripped text starts with the marker
Marcadas == {i \in 1..Len(p_archivo.lineas) :
                StartsWith(Strip(p_archivo.lineas[i]), MARCADOR)}

PrimeraMarcada == CHOOSE i \in Marcadas : \A j \in Marcadas : i <= j

\* C8: the header is the first line whose stripped text starts with
\* PARAMETER,YEAR: the lines before it are ignored, the lines after it (later
\* marker lines included) are data rows; without such a line the parse fails
\* with the missing-header outcome and gives no table.
C8_PrimerEncabezado ==
    (p_pc = "fin" /\ p_archivo.legible) =>
        IF Marcadas = {}
        THEN /\ p_res.tag = "sin_encabezado"
             /\ p_res.inicio = 0
             /\ p_res.df = TablaVacia
             /\ p_res.crudo = TablaVacia
        ELSE /\ p_res.tag \in {"ok", "vacio", "columnas_faltantes"}
             /\ p_res.inicio = PrimeraMarcada
             /\ p_res.crudo.columns = SplitComma(p_archivo.lineas[PrimeraMarcada], <<>>)
             /\ Len(p_res.crudo.filas) =
                    Cardinality({i \in (PrimeraMarcada + 1)..Len(p_archivo.lineas) :
                                    p_archivo.lineas[i] # <<>>})
             /\ \A i \in Marcadas \ {PrimeraMarcada} :
                    \E r \in 1..Len(p_res.crudo.filas) :
                        p_res.crudo.filas[r] =
                            Celdas(p_archivo.lineas[i], Len(p_res.crudo.columns))

\* a preamble line, then the header, then rows one of which repeats the marker
C8_Witness ==
    /\ p_pc = "fin"
    /\ p_res.tag = "ok"
    /\ p_res.inicio = 2
    /\ Cardinality(Marcadas) = 2
    /\ Len(p_res.df.filas) > 0

\* C2: a file whose parsed header lacks a required column always ends with the
\* missing-columns outcome naming the missing columns, zero data rows or not.
C2_SiempreColumnasFaltantes ==
    (p_pc = "fin" /\ p_archivo.legible /\ Marcadas # {}) =>
        LET encabezado == SplitComma(p_archivo.lineas[PrimeraMarcada], <<>>)
            faltan == SelectSeqIn(columnas_necesarias,
                                  SeqToSet(columnas_necesarias) \ SeqToSet(encabezado))
        IN  faltan # <<>> =>
                /\ p_res.tag = "columnas_faltantes"
                /\ p_res.faltantes = faltan

---------------------------------------------------------------------------
(* Properties of procesar_todos (SpecLoader) *)

EsCsv(e) == EndsWith(e.nombre, T_CSV)

\* the entries of the folder that end in .csv, in listing order
Descubiertos == SelectSeq(l_carpeta, EsCsv)

\* what _leer_archivo gives for each of them
Lecturas ==
    [i \in 1..Len(Descubiertos) |->
        leer_archivo(Descubiertos[i].archivo, splitext_base(Descubiertos[i].nombre))]

NombresIntentados == [i \in 1..Len(l_res.intentos) |-> l_res.intentos[i].archivo]

NombresDescubiertos == [i \in 1..Len(Descubiertos) |-> Descubiertos[i].nombre]

\* the value of column col in a row of a table, NaN when the table lacks it
Valor(tabla, fila, col) ==
    IF col \in SeqToSet(tabla.columns)
    THEN fila.vars[CHOOSE c \in 1..Len(tabla.columns) : tabla.columns[c] = col]
    ELSE NaN

MismaFila(T, F, t, f) ==
    /\ F.anio = f.anio
    /\ F.mes = f.mes
    /\ F.canton = f.canton
    /\ SeqToSet(t.columns) \subseteq SeqToSet(T.columns)
    /\ \A c \in 1..Len(T.columns) : F.vars[c] = Valor(t, f, T.columns[c])

RECURSIVE FilasAntes(_, _)
FilasAntes(lecturas, i) ==
    IF i <= 1 THEN 0
    ELSE FilasAntes(lecturas, i - 1)
         + (IF lecturas[i - 1].tag = "ok" THEN Len(lecturas[i - 1].df.filas) ELSE 0)

\* C1: when at least one discovered file parses, procesar_todos returns; every
\* discovered file was handed to the parser, failing ones skipped; the table
\* returned holds the rows of exactly the parsed files, file after file in
\* discovery order and in their order within the file.
C1_ConcatenaExitosos ==
    l_pc = "fin" =>
        LET L == Lecturas
        IN  (\E i \in 1..Len(L) : L[i].tag = "ok") =>
            /\ l_res.exc = "ninguna"
            /\ NombresIntentados = NombresDescubiertos
            /\ \A i \in 1..Len(L) : l_res.intentos[i].tag = L[i].tag
            /\ Len(l_res.df.filas) = FilasAntes(L, Len(L) + 1)
            /\ \A i \in {n \in 1..Len(L) : L[n].tag = "ok"} :
                   \A j \in 1..Len(L[i].df.filas) :
                       MismaFila(l_res.df, l_res.df.filas[FilasAntes(L, i) + j],
                                 L[i].df, L[i].df.filas[j])

\* a file that fails is read before one that parses
C1_Witness ==
    /\ l_pc = "fin"
    /\ l_res.exc = "ninguna"
    /\ Len(l_res.intentos) = 2
    /\ l_res.intentos[1].tag # "ok"
    /\ l_res.intentos[2].tag = "ok"
    /\ Len(l_res.df.filas) > 0

\* C5: when no name of the folder ends in .csv, procesar_todos raises the
\* no-input-files error, reads no file and writes no output file.
C5_SinArchivosCsv ==
    (l_pc = "fin" /\ \A i \in 1..Len(l_carpeta) : ~EndsWith(l_carpeta[i].nombre, T_CSV)) =>
        /\ l_res.exc = "sin_archivos_csv"
        /\ l_res.intentos = <<>>
        /\ l_res.df = TablaVacia
        /\ l_res.escrito = <<>>
        /\ l_disco = {}

\* a folder holding only other extensions, an output name being asked for
C5_Witness ==
    /\ l_pc = "fin"
    /\ Len(l_carpeta) = 2
    /\ \A i \in 1..Len(l_carpeta) : ~EndsWith(l_carpeta[i].nombre, T_CSV)
    /\ l_nombre = N_SALIDA
    /\ l_res.exc = "sin_archivos_csv"

\* C6: when some file is discovered and every discovered file fails to parse,
\* procesar_todos raises the no-valid-data error after handing every file to
\* the parser; it returns no table and writes no output file.
C6_SinDatosValidos ==
    (l_pc = "fin" /\ Len(Descubiertos) > 0
     /\ \A i \in 1..Len(Descubiertos) : Lecturas[i].tag # "ok") =>
        /\ l_res.exc = "sin_datos_validos"
        /\ NombresIntentados = NombresDescubiertos
        /\ l_res.df = TablaVacia
        /\ l_res.escrito = <<>>
        /\ l_disco = {}

\* two files failing in different ways, an output name being asked for
C6_Witness ==
    /\ l_pc = "fin"
    /\ l_res.exc = "sin_datos_validos"
    /\ Len(l_res.intentos) = 2
    /\ l_res.intentos[1].tag # l_res.intentos[2].tag
    /\ l_nombre = N_SALIDA

---------------------------------------------------------------------------
(* Properties of the conversion script (SpecConv) *)

\* N: the non-null data cells of a row
NoNulos(fila) == Cardinality({j \in 1..Len(fila.celdas) : fila.celdas[j] # <<>>})

\* the months of a result row that were given a value: its month records
MesesCon(datos) ==
    {i \in 1..Len(meses) :
        <<meses[i], "produccion">> \in DOMAIN datos \/ <<meses[i], "area">> \in DOMAIN datos}

Techo2(n) == (n + 1) \div 2

Minimo(a, b) == IF a < b THEN a ELSE b

UltimoMes(datos) == CHOOSE i \in MesesCon(datos) : \A j \in MesesCon(datos) : j <= i

SoloProduccion(datos, i) ==
    /\ <<meses[i], "produccion">> \in DOMAIN datos
    /\ <<meses[i], "area">> \notin DOMAIN datos

\* C3 as stated: every converted row with N non-null values gives exactly
\* ceil(N/2) month records, whatever N, the last one with a production and no
\* area when N is odd.
C3_TechoSinLimite ==
    \A k \in 1..Len(c_resultado) :
        LET N == NoNulos(c_turrialba[k])
            d == c_resultado[k].datos
        IN  /\ Cardinality(MesesCon(d)) = Techo2(N)
            /\ N % 2 = 1 => SoloProduccion(d, UltimoMes(d))

\* C3 as amended: every converted row with N non-null values gives exactly
\* min(ceil(N/2), 12) month records, those of the first months; when N is odd
\* and below 24 the last one has a production and no area.
C3_TechoHastaDoce ==
    \A k \in 1..Len(c_resultado) :
        LET N == NoNulos(c_turrialba[k])
            d == c_resultado[k].datos
            n == Minimo(Techo2(N), Len(meses))
        IN  /\ MesesCon(d) = 1..n
            /\ (N % 2 = 1 /\ N < 2 * Len(meses)) => SoloProduccion(d, UltimoMes(d))
            /\ (N % 2 = 0 \/ N > 2 * Len(meses)) =>
                   \A i \in 1..n : ~SoloProduccion(d, i)

\* a converted row with more values than twelve months take, and an odd one
C3_Witness ==
    /\ c_pc = "fin"
    /\ Len(c_resultado) = 1
    /\ NoNulos(c_turrialba[1]) = 2 * Len(meses) + 1
    /\ Cardinality(MesesCon(c_resultado[1].datos)) = Len(meses)

\* how many of the cells 1..j of a row are not null
Rango(celdas, j) == Cardinality({i \in 1..j : celdas[i] # <<>>})

\* the month-metric column of the s-th slot, s = 1 being month 1 production
Casilla(s) == <<meses[Techo2(s)], IF s % 2 = 1 THEN "produccion" ELSE "area">>

\* C9: the nulls of a row are removed wherever they are and the values left are
\* paired by position: the r-th value left is the production (r odd) or the
\* area (r even) of month ceil(r/2), for the twelve months; so a value that has
\* a null cell before it is not in the slot of its own column.
C9_EmparejaTrasQuitarNulos ==
    \A k \in 1..Len(c_resultado) :
        LET celdas == c_turrialba[k].celdas
            d == c_resultado[k].datos
        IN  /\ Cardinality(DOMAIN d) = Minimo(NoNulos(c_turrialba[k]), 2 * Len(meses))
            /\ \A j \in 1..Len(celdas) :
                   (celdas[j] # <<>> /\ Rango(celdas, j) <= 2 * Len(meses)) =>
                       /\ Casilla(Rango(celdas, j)) \in DOMAIN d
                       /\ d[Casilla(Rango(celdas, j))] = celdas[j][1]
            /\ \A j \in 1..Minimo(Len(celdas), 2 * Len(meses)) :
                   (celdas[j] # <<>> /\ \E p \in 1..(j - 1) : celdas[p] = <<>>) =>
                       ~(Casilla(j) \in DOMAIN d /\ d[Casilla(j)] = celdas[j][1])

\* a null in the area of month 1 moves the production of month 2 into it
C9_Witness ==
    /\ Len(c_resultado) >= 1
    /\ Len(c_turrialba[1].celdas) >= 4
    /\ c_turrialba[1].celdas[2] = <<>>
    /\ c_turrialba[1].celdas[3] # <<>>
    /\ c_resultado[1].datos[<<"enero", "area">>] = c_turrialba[1].celdas[3][1]

\* C4: the yield side gives its rows the same region key as the atmospheric
\* side (strip + upper): every spreadsheet row whose region is Turrialba up to
\* case and blanks is converted, under the key the atmospheric table uses.
C4_MismaClaveDeRegion ==
    c_pc = "fin" =>
        /\ Len(c_resultado) =
               Len(SelectSeq(c_df, LAMBDA f :
                       clave_canton(f.region) = clave_canton(T_Turrialba)))
        /\ \A k \in 1..Len(c_resultado) :
               c_resultado[k].region = clave_canton(c_turrialba[k].region)

---------------------------------------------------------------------------
(* Properties of ejecutar_pipeline_completo (SpecPipe) *)

EsPrefijo(s, t) == Len(s) <= Len(t) /\ SubSeq(t, 1, Len(s)) = s

\* the run was aborted by the exception of stage `etapa`
Abortada(etapa) ==
    /\ e_ret.tipo = "excepcion"
    /\ e_ret.etapa = etapa
    /\ e_pc = "fin"
    /\ e_hechas # <<>>
    /\ e_hechas[Len(e_hechas)] = etapa
    /\ e_log # <<>>
    /\ e_log[Len(e_log)] = "error_pipeline_completo"
    /\ e_artefacto = "ausente"

\* C7: the stages run in the order validate, yield, atmospheric, merge, write;
\* when validation, a processing stage or the merge fails, the error is logged
\* and raised to the caller, no later stage runs and rnn_df.csv is not written.
C7_OrdenYAborto ==
    /\ EsPrefijo(e_hechas, ETAPAS)
    /\ (Len(e_hechas) >= 1 /\ validar_archivos_entrada(e_fs) # "ninguna")
           => Abortada("validar")
    /\ "error_datos_papa" \in SeqToSet(e_log) => Abortada("papa")
    /\ (Len(e_hechas) >= 3 /\ procesar_datos_atmosfericos(e_fs).exc # "ninguna")
           => Abortada("clima")
    /\ "error_fusionando" \in SeqToSet(e_log) => Abortada("fusion")

\* the atmospheric stage raised: every file of the folder failed to parse
C7_Witness ==
    /\ e_ret.tipo = "excepcion"
    /\ e_ret.etapa = "clima"
    /\ e_ret.exc = "sin_datos_validos"
    /\ e_hechas = <<"validar", "papa", "clima">>

=============================================================================
